---- MODULE Spec2Model ----
(***************************************************************************)
(* Position ledger of fund_manager (src/app.py): the Flask handlers add,   *)
(* update_position and delete over the PostgreSQL table holdings.           *)
(*                                                                         *)
(* Every handler opens its own connection (get_conn), so each request is   *)
(* one READ COMMITTED transaction: a SELECT sees the committed rows; an     *)
(* INSERT / UPDATE / DELETE locks its row until the commit that follows it  *)
(* at once, so no other request reads or writes the key in between and the  *)
(* write and its commit are one step here.  Between its SELECT and its      *)
(* write a request holds no lock.  Requests are served concurrently by the  *)
(* processes of Procs.                                                      *)
(*                                                                         *)
(* Numbers: buy_price and amount are REAL columns and Python floats.  The   *)
(* model computes them exactly: amounts and inputs are integers, prices     *)
(* are fractions <<numerator, denominator>> in lowest terms.  Floating      *)
(* point rounding is not modelled.                                          *)
(***************************************************************************)
EXTENDS Integers, Sequences, FiniteSets, TLC

\* ---------------------------------------------------------------- bounds
MaxReq == 3

\* ---------------------------------------------------------------- inputs
Procs == {1, 2}
Users == {1, 2}
NoUser == 0
Sessions == Users \cup {NoUser}
Codes == {"A"}
CodeInputs == Codes \cup {""}
PriceInputs == {-1, 0, 1, 3}
AmountInputs == {0, 1, 2}
DeltaInputs == {-2, -1, 0, 1}
Keys == Users \X Codes

\* ------------------------------------------------------------- fractions
Abs(i) == IF i < 0 THEN -i ELSE i

RECURSIVE Gcd(_, _)
Gcd(a, b) == IF b = 0 THEN a ELSE Gcd(b, a % b)

\* n/d in lowest terms with a positive denominator (d # 0).
Frac(n, d) ==
    LET g == Gcd(Abs(n), Abs(d))
        s == IF d < 0 THEN -1 ELSE 1
    IN  <<(s * n) \div g, (s * d) \div g>>

FromNumber(i) == <<i, 1>>
FracAdd(f, g) == Frac(f[1] * g[2] + g[1] * f[2], f[2] * g[2])
FracSub(f, g) == Frac(f[1] * g[2] - g[1] * f[2], f[2] * g[2])
FracMul(f, g) == Frac(f[1] * g[1], f[2] * g[2])
\* f / g, for g # 0.
FracDiv(f, g) == Frac(f[1] * g[2], f[2] * g[1])

\* round(f, 2): the nearest multiple of 1/100, a tie going to the even one.
Round2(f) ==
    LET n == f[1] * 100
        q == n \div f[2]
        r == n - q * f[2]
        up == 2 * r > f[2] \/ (2 * r = f[2] /\ q % 2 = 1)
    IN  Frac(IF up THEN q + 1 ELSE q, 100)
FracPositive(f) == f[1] > 0

\* -------------------------------------------------------------- the store
NoRow == [amount |-> 0, buy_price |-> <<0, 1>>, present |-> FALSE]
Row(amount, buy_price) == [amount |-> amount, buy_price |-> buy_price, present |-> TRUE]

\* A request: the session's user, the inputs, and the handler's locals (row:
\* the row its SELECT returned; matched: its write found a row; rows, i,
\* funds and the three totals: the locals of holdings, i the row the loop is
\* at).
NoReq ==
    [op |-> "none", session |-> NoUser, user_id |-> NoUser, code |-> "",
     numeric |-> FALSE, buy_price |-> 0,
     amount |-> 0, realtime |-> FALSE, delta |-> 0, add_price |-> 0, row |-> NoRow,
     matched |-> FALSE,
     rows |-> <<>>, i |-> 0, funds |-> <<>>, total_asset |-> <<0, 1>>,
     total_cost |-> <<0, 1>>, total_today_profit |-> <<0, 1>>,
     period |-> "", data |-> <<>>, today |-> 0]

NoResp ==
    [status |-> 0, error |-> "", new_amount |-> 0, buy_price |-> <<0, 1>>,
     funds |-> <<>>, total_asset |-> <<0, 1>>, total_profit |-> <<0, 1>>,
     total_percent |-> <<0, 1>>, today_profit |-> <<0, 1>>, series |-> <<>>]
Error(status, error) == [NoResp EXCEPT !.status = status, !.error = error]
Ok == [NoResp EXCEPT !.status = 200]

VARIABLES
    db,      \* committed rows of holdings, by (user_id, code)
    pc,      \* each process's position in its handler
    req,     \* each process's request: session, inputs and locals
    resp,    \* each process's response
    hist,    \* history variable, read by no handler: per key, a summary of
             \* the writes committed since the holding was opened
    nreq     \* requests started

vars == <<db, pc, req, resp, hist, nreq>>

\* sum: opening amount plus the deltas applied; units, paid: units bought and
\* money paid over the buy events (the Open and the adds); minp, maxp: the
\* lowest and highest price of a buy event; reduced: a reduce was applied;
\* addAfterReduce: an add was applied after a reduce.
NoHist ==
    [sum |-> 0, units |-> 0, paid |-> 0, minp |-> 0, maxp |-> 0, reduced |-> FALSE,
     addAfterReduce |-> FALSE]

Min(a, b) == IF a <= b THEN a ELSE b
Max(a, b) == IF a >= b THEN a ELSE b

KeyOf(p) == <<req[p].user_id, req[p].code>>

Init ==
    /\ db = [k \in Keys |-> NoRow]
    /\ pc = [p \in Procs |-> "idle"]
    /\ req = [p \in Procs |-> NoReq]
    /\ resp = [p \in Procs |-> NoResp]
    /\ hist = [k \in Keys |-> NoHist]
    /\ nreq = 0

Respond(p, r) ==
    /\ resp' = [resp EXCEPT ![p] = r]
    /\ pc' = [pc EXCEPT ![p] = "done"]

\* A current_user that falls back on user 1 when the session has no user_id.
current_userDefault(session) == IF session = NoUser THEN 1 ELSE session

\* current_user: the session's user_id, or None.
current_user(session) == session

\* ------------------------------------------------------------------- add
ValidateZeroAllowed(code, numeric, buy_price, amount) ==
    IF code = "" THEN "CodeEmpty"
    ELSE IF ~numeric THEN "NotNumeric"
    ELSE IF buy_price < 0 \/ amount < 0 THEN "NotPositive"
    ELSE ""

\* Lines 180-188: the input checks, in the code's order; "" when all pass.
Validate(code, numeric, buy_price, amount) ==
    IF code = "" THEN "CodeEmpty"
    ELSE IF ~numeric THEN "NotNumeric"
    ELSE IF buy_price <= 0 \/ amount <= 0 THEN "NotPositive"
    ELSE ""

\* Lines 170-193: session check, input checks, fund existence check
\* (fetch_realtime answers or fails, whatever the code).  Nothing here touches
\* the store.  numeric: buy_price and amount convert with float().
AddBegin(p) ==
    /\ pc[p] = "idle"
    /\ nreq < MaxReq
    /\ nreq' = nreq + 1
    /\ \E session \in Sessions, code \in CodeInputs, numeric \in BOOLEAN,
          buy_price \in PriceInputs, amount \in AmountInputs, realtime \in BOOLEAN :
         LET user_id == current_user(session)
             r0 == [NoReq EXCEPT !.op = "add", !.session = session, !.user_id = user_id]
             r1 == [r0 EXCEPT !.code = code, !.numeric = numeric,
                              !.buy_price = IF numeric THEN buy_price ELSE 0,
                              !.amount = IF numeric THEN amount ELSE 0]
             invalid == Validate(code, numeric, buy_price, amount)
         IN  IF user_id = NoUser
               THEN /\ req' = [req EXCEPT ![p] = r0]
                    /\ Respond(p, Error(401, "NotLoggedIn"))
             ELSE IF invalid # ""
               THEN /\ req' = [req EXCEPT ![p] = r1]
                    /\ Respond(p, Error(400, invalid))
             ELSE IF ~realtime
               THEN /\ req' = [req EXCEPT ![p] = r1]
                    /\ Respond(p, Error(400, "FundInvalid"))
             ELSE /\ req' = [req EXCEPT ![p] = [r1 EXCEPT !.realtime = TRUE]]
                  /\ pc' = [pc EXCEPT ![p] = "add_select"]
                  /\ UNCHANGED resp
    /\ UNCHANGED <<db, hist>>

AddSelectNoCheck(p) ==
    /\ pc[p] = "add_select"
    /\ pc' = [pc EXCEPT ![p] = "add_insert"]
    /\ UNCHANGED <<db, req, resp, hist, nreq>>

\* Lines 198-201: SELECT id ... ; a row found is a duplicate.
AddSelect(p) ==
    /\ pc[p] = "add_select"
    /\ IF db[KeyOf(p)].present
         THEN Respond(p, Error(400, "AlreadyExists"))
         ELSE /\ pc' = [pc EXCEPT ![p] = "add_insert"]
              /\ UNCHANGED resp
    /\ UNCHANGED <<db, req, hist, nreq>>

\* Lines 204-211: INSERT, commit, answer ok.  UNIQUE(user_id, code) makes
\* the INSERT raise IntegrityError when the key is committed by now; add does
\* not catch it, so Flask answers 500.
AddInsert(p) ==
    /\ pc[p] = "add_insert"
    /\ IF db[KeyOf(p)].present
         THEN /\ Respond(p, Error(500, "IntegrityError"))
              /\ UNCHANGED <<db, hist>>
         ELSE /\ db' = [db EXCEPT ![KeyOf(p)] =
                    Row(req[p].amount, FromNumber(req[p].buy_price))]
              /\ hist' = [hist EXCEPT ![KeyOf(p)] =
                    [NoHist EXCEPT !.sum = req[p].amount, !.units = req[p].amount,
                                   !.paid = req[p].buy_price * req[p].amount,
                                   !.minp = req[p].buy_price, !.maxp = req[p].buy_price]]
              /\ Respond(p, Ok)
    /\ UNCHANGED <<req, nreq>>

\* ------------------------------------------------------- update_position
\* Lines 217-222: session check; delta and buy_price default to 0.  add_price
\* is kept only for delta > 0, the one case that reads it (line 243).
UpdBegin(p) ==
    /\ pc[p] = "idle"
    /\ nreq < MaxReq
    /\ nreq' = nreq + 1
    /\ \E session \in Sessions, code \in Codes, delta \in DeltaInputs,
          add_price \in PriceInputs :
         LET user_id == current_user(session)
             r0 == [NoReq EXCEPT !.op = "update", !.session = session, !.user_id = user_id]
         IN  IF user_id = NoUser
               THEN /\ req' = [req EXCEPT ![p] = r0]
                    /\ Respond(p, Error(401, "NotLoggedIn"))
               ELSE /\ req' = [req EXCEPT ![p] =
                          [r0 EXCEPT !.code = code, !.delta = delta,
                                     !.add_price = IF delta > 0 THEN add_price ELSE 0]]
                    /\ pc' = [pc EXCEPT ![p] = "upd_select"]
                    /\ UNCHANGED resp
    /\ UNCHANGED <<db, hist>>

UpdSelectNoCheck(p) ==
    /\ pc[p] = "upd_select"
    /\ req' = [req EXCEPT ![p].row = db[KeyOf(p)]]
    /\ pc' = [pc EXCEPT ![p] = "upd_write"]
    /\ UNCHANGED <<db, resp, hist, nreq>>

\* Lines 227-232: SELECT amount, buy_price; no row is an error.
UpdSelect(p) ==
    /\ pc[p] = "upd_select"
    /\ IF ~db[KeyOf(p)].present
         THEN /\ Respond(p, Error(400, "FundNotFound"))
              /\ UNCHANGED req
         ELSE /\ req' = [req EXCEPT ![p].row = db[KeyOf(p)]]
              /\ pc' = [pc EXCEPT ![p] = "upd_write"]
              /\ UNCHANGED resp
    /\ UNCHANGED <<db, hist, nreq>>

\* Line 235.
NewAmount(old_amount, delta) == old_amount + delta

AvgPricePostQuantity(old_amount, old_price, delta, add_price) ==
    IF delta > 0
      THEN Frac(old_price[1] * NewAmount(old_amount, delta) + add_price * delta * old_price[2],
                old_price[2] * NewAmount(old_amount, delta))
      ELSE old_price

AvgPriceUnweighted(old_amount, old_price, delta, add_price) ==
    IF delta > 0
      THEN Frac(old_price[1] + add_price * old_price[2], 2 * old_price[2])
      ELSE old_price

\* The total cost of the Holding after an add, not divided by its quantity.
AvgPriceTotalCost(old_amount, old_price, delta, add_price) ==
    IF delta > 0
      THEN Frac(old_price[1] * old_amount + add_price * delta * old_price[2],
                old_price[2])
      ELSE old_price

AvgPriceAnyDelta(old_amount, old_price, delta, add_price) ==
    Frac(old_price[1] * old_amount + add_price * delta * old_price[2],
         old_price[2] * NewAmount(old_amount, delta))

\* Lines 242-245: the weighted average on an add, the old price otherwise.
AvgPrice(old_amount, old_price, delta, add_price) ==
    IF delta > 0
      THEN Frac(old_price[1] * old_amount + add_price * delta * old_price[2],
                old_price[2] * NewAmount(old_amount, delta))
      ELSE old_price

NewRowKeepsZero(old, delta, add_price) ==
    IF NewAmount(old.amount, delta) < 0
      THEN NoRow
      ELSE Row(NewAmount(old.amount, delta),
               AvgPrice(old.amount, old.buy_price, delta, add_price))

\* Lines 237-251: the row the request writes, from the row it read; NoRow
\* stands for the DELETE.
NewRow(old, delta, add_price) ==
    IF NewAmount(old.amount, delta) <= 0
      THEN NoRow
      ELSE Row(NewAmount(old.amount, delta),
               AvgPrice(old.amount, old.buy_price, delta, add_price))

\* An UPDATE that sets the amount alone and commits, the buy_price left for a
\* later statement.
UpdWriteAmountFirst(p) ==
    /\ pc[p] = "upd_write"
    /\ LET k == KeyOf(p)
           d == req[p].delta
           new == NewRow(req[p].row, d, req[p].add_price)
           h == hist[k]
       IN  /\ db' = IF ~db[k].present THEN db
                 ELSE IF ~new.present THEN [db EXCEPT ![k] = new]
                 ELSE [db EXCEPT ![k].amount = new.amount]
           /\ hist' =
                IF ~db[k].present THEN hist
                ELSE IF ~new.present THEN [hist EXCEPT ![k] = NoHist]
                ELSE [hist EXCEPT ![k] =
                        [sum |-> h.sum + d,
                         units |-> IF d > 0 THEN h.units + d ELSE h.units,
                         paid |-> IF d > 0 THEN h.paid + req[p].add_price * d ELSE h.paid,
                         minp |-> IF d > 0 THEN Min(h.minp, req[p].add_price) ELSE h.minp,
                         maxp |-> IF d > 0 THEN Max(h.maxp, req[p].add_price) ELSE h.maxp,
                         reduced |-> h.reduced \/ d <= 0,
                         addAfterReduce |-> h.addAfterReduce \/ (d > 0 /\ h.reduced)]]
           /\ req' = [req EXCEPT ![p].matched = db[k].present]
           /\ Respond(p, [Ok EXCEPT
                  !.new_amount = new.amount,
                  !.buy_price = IF new.present THEN new.buy_price
                                ELSE req[p].row.buy_price])
    /\ UNCHANGED nreq

\* Lines 234-256: DELETE or UPDATE ... WHERE user_id AND code, commit, report
\* new_amount and buy_price.  The statement acts on the committed row of the
\* key; with no such row it changes nothing, and the handler does not look.
UpdWrite(p) ==
    /\ pc[p] = "upd_write"
    /\ LET k == KeyOf(p)
           d == req[p].delta
           new == NewRow(req[p].row, d, req[p].add_price)
           h == hist[k]
       IN  /\ db' = IF db[k].present THEN [db EXCEPT ![k] = new] ELSE db
           /\ hist' =
                IF ~db[k].present THEN hist
                ELSE IF ~new.present THEN [hist EXCEPT ![k] = NoHist]
                ELSE [hist EXCEPT ![k] =
                        [sum |-> h.sum + d,
                         units |-> IF d > 0 THEN h.units + d ELSE h.units,
                         paid |-> IF d > 0 THEN h.paid + req[p].add_price * d ELSE h.paid,
                         minp |-> IF d > 0 THEN Min(h.minp, req[p].add_price) ELSE h.minp,
                         maxp |-> IF d > 0 THEN Max(h.maxp, req[p].add_price) ELSE h.maxp,
                         reduced |-> h.reduced \/ d <= 0,
                         addAfterReduce |-> h.addAfterReduce \/ (d > 0 /\ h.reduced)]]
           /\ req' = [req EXCEPT ![p].matched = db[k].present]
           /\ Respond(p, [Ok EXCEPT
                  !.new_amount = new.amount,
                  !.buy_price = IF new.present THEN new.buy_price
                                ELSE req[p].row.buy_price])
    /\ UNCHANGED nreq

\* ---------------------------------------------------------------- delete
\* Lines 261-262: session check.
DelBegin(p) ==
    /\ pc[p] = "idle"
    /\ nreq < MaxReq
    /\ nreq' = nreq + 1
    /\ \E session \in Sessions, code \in Codes :
         LET user_id == current_user(session)
             r0 == [NoReq EXCEPT !.op = "delete", !.session = session, !.user_id = user_id]
         IN  IF user_id = NoUser
               THEN /\ req' = [req EXCEPT ![p] = r0]
                    /\ Respond(p, Error(401, "NotLoggedIn"))
               ELSE /\ req' = [req EXCEPT ![p] = [r0 EXCEPT !.code = code]]
                    /\ pc' = [pc EXCEPT ![p] = "del_exec"]
                    /\ UNCHANGED resp
    /\ UNCHANGED <<db, hist>>

\* A DELETE ... WHERE code alone, whoever the owner.
DelExecAnyUser(p) ==
    /\ pc[p] = "del_exec"
    /\ db' = [k \in DOMAIN db |-> IF k[2] = req[p].code THEN NoRow ELSE db[k]]
    /\ hist' = [k \in DOMAIN hist |-> IF k[2] = req[p].code THEN NoHist ELSE hist[k]]
    /\ req' = [req EXCEPT ![p].matched = db[KeyOf(p)].present]
    /\ Respond(p, Ok)
    /\ UNCHANGED nreq

\* A delete that refuses a key with no Holding.
DelExecStrict(p) ==
    /\ pc[p] = "del_exec"
    /\ IF db[KeyOf(p)].present
         THEN /\ db' = [db EXCEPT ![KeyOf(p)] = NoRow]
              /\ hist' = [hist EXCEPT ![KeyOf(p)] = NoHist]
              /\ req' = [req EXCEPT ![p].matched = TRUE]
              /\ Respond(p, Ok)
         ELSE /\ Respond(p, Error(400, "FundNotFound"))
              /\ UNCHANGED <<db, hist, req>>
    /\ UNCHANGED nreq

\* Lines 264-270: DELETE ... WHERE user_id AND code, commit, answer deleted.
DelExec(p) ==
    /\ pc[p] = "del_exec"
    /\ db' = [db EXCEPT ![KeyOf(p)] = NoRow]
    /\ hist' = [hist EXCEPT ![KeyOf(p)] = NoHist]
    /\ req' = [req EXCEPT ![p].matched = db[KeyOf(p)].present]
    /\ Respond(p, Ok)
    /\ UNCHANGED nreq

\* -------------------------------------------------------------- holdings
\* What fetch_realtime gives for a code: None when the request or the parse
\* fails (lines 151-152), else the parsed payload: a quote with the prices gsz
\* and gszzl, or a payload that holds no numeric gsz.
NoQuote == [kind |-> "none", gsz |-> <<0, 1>>, gszzl |-> <<0, 1>>]
BadQuote == [kind |-> "bad", gsz |-> <<0, 1>>, gszzl |-> <<0, 1>>]
Quote(gsz, gszzl) == [kind |-> "ok", gsz |-> gsz, gszzl |-> gszzl]
QuoteInputs == {NoQuote, BadQuote, Quote(<<1, 1>>, <<2, 5>>), Quote(<<3, 1>>, <<-1, 1>>)}

\* The order the SELECT of line 280 returns a user's rows in.
CodeOrder == <<"A", "B", "C">>

\* Lines 280-281: SELECT code, buy_price, amount ... WHERE user_id.
SelectRows(table, user_id, codes) ==
    LET Held(c) == <<user_id, c>> \in DOMAIN table /\ table[<<user_id, c>>].present
        held == SelectSeq(codes, Held)
    IN  [n \in 1..Len(held) |->
            [code |-> held[n], buy_price |-> table[<<user_id, held[n]>>].buy_price,
             amount |-> table[<<user_id, held[n]>>].amount]]

\* Lines 275-276: session check.
HoldBegin(p) ==
    /\ pc[p] = "idle"
    /\ nreq < MaxReq
    /\ nreq' = nreq + 1
    /\ \E session \in Sessions :
         LET user_id == current_user(session)
             r0 == [NoReq EXCEPT !.op = "holdings", !.session = session,
                                 !.user_id = user_id]
         IN  /\ req' = [req EXCEPT ![p] = r0]
             /\ IF user_id = NoUser
                  THEN Respond(p, Error(401, "NotLoggedIn"))
                  ELSE /\ pc' = [pc EXCEPT ![p] = "val_select"]
                       /\ UNCHANGED resp
    /\ UNCHANGED <<db, hist>>

\* Lines 278-287: one SELECT reads the user's rows; the totals start at 0.
HoldSelect(p) ==
    /\ pc[p] = "val_select"
    /\ req' = [req EXCEPT ![p].rows = SelectRows(db, req[p].user_id, CodeOrder),
                          ![p].i = 1]
    /\ pc' = [pc EXCEPT ![p] = "val_loop"]
    /\ UNCHANGED <<db, resp, hist, nreq>>

\* Lines 293-298 and 304-315: one holding valued against its quote.  asset and
\* cost are the loop's locals, kept beside the entry's fields for the totals.
Fund(row, quote) ==
    LET current == quote.gsz
        gszzl == quote.gszzl
        amount == FromNumber(row.amount)
        asset == FracMul(current, amount)
        cost == FracMul(row.buy_price, amount)
        profit == FracSub(asset, cost)
    IN  [code |-> row.code, current |-> current, buy_price |-> row.buy_price,
         amount |-> row.amount, asset |-> asset, cost |-> cost,
         profit |-> Round2(profit),
         percent |-> IF FracPositive(cost)
                       THEN Round2(FracMul(FracDiv(profit, cost), FromNumber(100)))
                       ELSE FromNumber(0),
         holding |-> Round2(asset), gszzl |-> gszzl,
         today_profit |-> Round2(FracDiv(FracMul(asset, gszzl), FromNumber(100)))]

\* Lines 289-315: one turn of the loop.  No quote: the row is skipped.  A
\* payload without a numeric gsz: float() or the lookup raises, nothing
\* catches it, Flask answers 500.
HoldLoop(p) ==
    /\ pc[p] = "val_loop"
    /\ req[p].i <= Len(req[p].rows)
    /\ \E realtime \in QuoteInputs :
         LET r == req[p]
             f == Fund(r.rows[r.i], realtime)
         IN  IF realtime.kind = "none"
               THEN /\ req' = [req EXCEPT ![p].i = r.i + 1]
                    /\ UNCHANGED <<pc, resp>>
             ELSE IF realtime.kind = "bad"
               THEN /\ Respond(p, Error(500, "QuoteError"))
                    /\ UNCHANGED req
             ELSE /\ req' = [req EXCEPT
                         ![p].i = r.i + 1,
                         ![p].funds = Append(r.funds, f),
                         ![p].total_asset = FracAdd(r.total_asset, f.asset),
                         ![p].total_cost = FracAdd(r.total_cost, f.cost),
                         ![p].total_today_profit =
                             FracAdd(r.total_today_profit, f.today_profit)]
                  /\ UNCHANGED <<pc, resp>>
    /\ UNCHANGED <<db, hist, nreq>>

\* Lines 317-323: the answer, the totals rounded.
HoldFinish(p) ==
    /\ pc[p] = "val_loop"
    /\ req[p].i > Len(req[p].rows)
    /\ LET r == req[p]
           total_profit == FracSub(r.total_asset, r.total_cost)
       IN  Respond(p, [Ok EXCEPT
               !.funds = r.funds,
               !.total_asset = Round2(r.total_asset),
               !.total_profit = Round2(total_profit),
               !.total_percent =
                   IF FracPositive(r.total_cost)
                     THEN Round2(FracMul(FracDiv(total_profit, r.total_cost),
                                         FromNumber(100)))
                     ELSE FromNumber(0),
               !.today_profit = Round2(r.total_today_profit)])
    /\ UNCHANGED <<db, req, hist, nreq>>

\* --------------------------------------------------------------- history
\* Time is counted in ticks from an epoch, a day being the ticks of DayTicks:
\* midnight and noon.  A date (the string of "%Y-%m-%d") is a day number.
DayTicks == {0, 1}
TicksPerDay == Cardinality(DayTicks)

\* Line 163: datetime.fromtimestamp(x).strftime("%Y-%m-%d"), the day of a time.
Strftime(x) == x \div TicksPerDay
\* Line 337: datetime.strptime(date, "%Y-%m-%d"), the midnight of a day.
Strptime(date) == date * TicksPerDay
\* timedelta(days = n).
Timedelta(days) == days * TicksPerDay

\* Lines 332-335: the days of each period.
Days1m == 30
Days3m == 90
Days6m == 180
Days1y == 365

\* The period tags of a request; "5y" is one the handler does not know.
PeriodInputs == {"1m", "3m", "6m", "1y", "5y"}

\* datetime.now(): midnight and noon of day 400.
NowInputs == {800, 801}

\* Times of the upstream points, around each cutoff of day 400: day 34 noon,
\* day 35 midnight and noon, and the midnights of days 36, 220, 310, 370, 371.
StampInputs == {69, 70, 71, 72, 440, 620, 740, 742}

\* The upstream series Data_netWorthTrend, at most MaxHist points long.
MaxHist == 3
TrendInputs == UNION {[1..n -> StampInputs] : n \in 0..MaxHist}

\* Line 163: the points as {date, value}; the value stands for the point.
FromTrend(trend) ==
    [n \in 1..Len(trend) |-> [date |-> Strftime(trend[n]), value |-> trend[n]]]

\* Lines 331-335: the cutoff of a period.
Cutoff(today, period) ==
    IF period = "1m" THEN today - Timedelta(Days1m)
    ELSE IF period = "3m" THEN today - Timedelta(Days3m)
    ELSE IF period = "6m" THEN today - Timedelta(Days6m)
    ELSE today - Timedelta(Days1y)

\* A filter that drops the entry dated on the cutoff itself.
KeptStrict(d, cutoff) == Strptime(d.date) > cutoff

\* Line 337: the test of the comprehension.
Kept(d, cutoff) == Strptime(d.date) >= cutoff

\* Line 337: [d for d in data if ...].
RECURSIVE Filtered(_, _)
Filtered(data, cutoff) ==
    IF data = <<>> THEN <<>>
    ELSE IF Kept(Head(data), cutoff)
           THEN <<Head(data)>> \o Filtered(Tail(data), cutoff)
           ELSE Filtered(Tail(data), cutoff)

\* Line 326: a request for the history of a fund over a period; no session
\* is asked for.
HistBegin(p) ==
    /\ pc[p] = "idle"
    /\ nreq < MaxReq
    /\ nreq' = nreq + 1
    /\ \E period \in PeriodInputs :
         req' = [req EXCEPT ![p] = [NoReq EXCEPT !.op = "history", !.period = period]]
    /\ pc' = [pc EXCEPT ![p] = "hist_fetch"]
    /\ UNCHANGED <<db, resp, hist>>

\* Lines 328-329 with fetch_history (155-164): the upstream series as dated
\* entries, or [] when the request or the parse fails; no data, empty answer.
HistFetch(p) ==
    /\ pc[p] = "hist_fetch"
    /\ \E trend \in TrendInputs, failed \in BOOLEAN :
         LET data == IF failed THEN <<>> ELSE FromTrend(trend)
         IN  /\ req' = [req EXCEPT ![p].data = data]
             /\ IF data = <<>>
                  THEN Respond(p, Ok)
                  ELSE /\ pc' = [pc EXCEPT ![p] = "hist_filter"]
                       /\ UNCHANGED resp
    /\ UNCHANGED <<db, hist, nreq>>

\* Lines 331-338: the entries dated at or after the cutoff.
HistFilter(p) ==
    /\ pc[p] = "hist_filter"
    /\ \E today \in NowInputs :
         /\ req' = [req EXCEPT ![p].today = today]
         /\ Respond(p, [Ok EXCEPT
                !.series = Filtered(req[p].data, Cutoff(today, req[p].period))])
    /\ UNCHANGED <<db, hist, nreq>>

\* The request is over: the process serves the next one.
Return(p) ==
    /\ pc[p] = "done"
    /\ pc' = [pc EXCEPT ![p] = "idle"]
    /\ req' = [req EXCEPT ![p] = NoReq]
    /\ resp' = [resp EXCEPT ![p] = NoResp]
    /\ UNCHANGED <<db, hist, nreq>>

Next ==
    \E p \in Procs :
        \/ AddBegin(p)
        \/ AddSelect(p)
        \/ AddInsert(p)
        \/ UpdBegin(p)
        \/ UpdSelect(p)
        \/ UpdWrite(p)
        \/ DelBegin(p)
        \/ DelExec(p)
        \/ HoldBegin(p)
        \/ HoldSelect(p)
        \/ HoldLoop(p)
        \/ HoldFinish(p)
        \/ Return(p)

Spec == Init /\ [][Next]_vars

\* The same handlers with the requests served one after another: a request
\* starts only when no other is in flight.
Quiet(p) == \A o \in Procs \ {p} : pc[o] \in {"idle", "done"}

SerialNext ==
    \E p \in Procs :
        \/ Quiet(p) /\ AddBegin(p)
        \/ AddSelect(p)
        \/ AddInsert(p)
        \/ Quiet(p) /\ UpdBegin(p)
        \/ UpdSelect(p)
        \/ UpdWrite(p)
        \/ Quiet(p) /\ DelBegin(p)
        \/ DelExec(p)
        \/ Quiet(p) /\ HoldBegin(p)
        \/ HoldSelect(p)
        \/ HoldLoop(p)
        \/ HoldFinish(p)
        \/ Return(p)

\* The valuation alone, over a store that holds up to three Holdings of user 1:
\* the states a sequence of Opens and Adjusts on three codes leaves.
ValCodes == {"A", "B", "C"}
ValKeys == {1} \X ValCodes
ValRows == {NoRow, Row(1, FromNumber(1)), Row(2, FromNumber(3))}

ValInit ==
    /\ db \in [ValKeys -> ValRows]
    /\ pc = [p \in Procs |-> "idle"]
    /\ req = [p \in Procs |-> NoReq]
    /\ resp = [p \in Procs |-> NoResp]
    /\ hist = [k \in Keys |-> NoHist]
    /\ nreq = 0

ValNext ==
    \/ HoldBegin(1)
    \/ HoldSelect(1)
    \/ HoldLoop(1)
    \/ HoldFinish(1)
    \/ Return(1)

ValSpec == ValInit /\ [][ValNext]_vars

\* The history handler alone: it reads and writes no Holding.
HistNext ==
    \/ HistBegin(1)
    \/ HistFetch(1)
    \/ HistFilter(1)
    \/ Return(1)

HistSpec == Init /\ [][HistNext]_vars

SerialSpec == Init /\ [][SerialNext]_vars

\* ------------------------------------------------------ the error classes
\* The handlers answer every refusal with a status and a message; these are
\* the messages of lines 181, 186, 188, 193 (validation), 201 (duplicate)
\* and 232 (not found).
IsValidationError(r) ==
    r.status = 400 /\ r.error \in {"CodeEmpty", "NotNumeric", "NotPositive", "FundInvalid"}
IsDuplicateError(r) == r = Error(400, "AlreadyExists")
IsNotFoundError(r) == r = Error(400, "FundNotFound")

\* Process p answers its request in this step.
Answers(p) == pc[p] # "done" /\ pc'[p] = "done"

\* a/b = c/d for fractions given as pairs, whatever their form.
SameFrac(f, g) == f[1] * g[2] = g[1] * f[2]

\* ================================================================ claims

\* C1: no lost update. While a holding is stored, its amount is the amount it
\* was opened with plus the deltas of all the Adjust calls applied to it
\* since, under any interleaving of the calls.
C1_NoLostUpdate ==
    \A k \in Keys : db[k].present => db[k].amount = hist[k].sum

\* C2: every stored holding has amount > 0 and buy_price > 0.
C2_PositiveHolding ==
    \A k \in Keys : db[k].present => db[k].amount > 0 /\ FracPositive(db[k].buy_price)

\* C3: an Adjust with delta > 0 and price p2 that read the row (q1, p1) and
\* finds the holding stores amount q1 + delta and
\* buy_price (p1*q1 + p2*delta)/(q1 + delta), and reports both.
C3_AddStoresWeightedAverage ==
    [][\A p \in Procs :
         (pc[p] = "upd_write" /\ Answers(p) /\ req[p].delta > 0 /\ db[KeyOf(p)].present)
         => LET q1 == req[p].row.amount
                p1 == req[p].row.buy_price
                d == req[p].delta
                p2 == req[p].add_price
                new == db'[KeyOf(p)]
            IN  /\ new.present
                /\ new.amount = q1 + d
                /\ SameFrac(new.buy_price, <<p1[1] * q1 + p2 * d * p1[2], p1[2] * (q1 + d)>>)
                /\ resp'[p].status = 200
                /\ resp'[p].new_amount = new.amount
                /\ resp'[p].buy_price = new.buy_price]_vars

\* C3 witness: an add of 1 unit at 3 to a holding of 2 units at 1 has stored
\* 3 units at 5/3.
C3_Witness ==
    \E p \in Procs :
        /\ pc[p] = "done" /\ req[p].op = "update" /\ req[p].matched
        /\ req[p].delta = 1 /\ req[p].add_price = 3
        /\ req[p].row = Row(2, <<1, 1>>)
        /\ db[KeyOf(p)] = Row(3, <<5, 3>>)
        /\ resp[p].status = 200

\* C4 as claimed: a stored holding's buy_price is the average of the prices
\* of all its buy events (the Open and every add), weighted by the units
\* bought, after any sequence of Open, add and reduce.  Stated here for the
\* holdings bought at positive prices only.
C4_AverageOfAllBuys ==
    \A k \in Keys :
        (db[k].present /\ hist[k].minp > 0)
        => SameFrac(db[k].buy_price, <<hist[k].paid, hist[k].units>>)

\* C4 as amended: the same, for the sequences in which no add follows a
\* reduce.
C4_AverageOfBuysBeforeReduce ==
    \A k \in Keys :
        (db[k].present /\ ~hist[k].addAfterReduce)
        => SameFrac(db[k].buy_price, <<hist[k].paid, hist[k].units>>)

\* C4 witness: opened with 2 units at 1, 1 unit added at 3, then reduced by
\* 1: 2 units are held at 5/3, the average over the 3 units bought.
C4_Witness ==
    \E k \in Keys :
        /\ db[k] = Row(2, <<5, 3>>)
        /\ hist[k].units = 3 /\ hist[k].paid = 5
        /\ hist[k].reduced /\ ~hist[k].addAfterReduce

\* C5: an Adjust with delta <= 0 that read the row (q1, p1), with
\* q1 + delta > 0, and finds the holding stores amount q1 + delta and leaves
\* buy_price p1; it reports both.
C5_ReduceKeepsAverage ==
    [][\A p \in Procs :
         (/\ pc[p] = "upd_write" /\ Answers(p)
          /\ req[p].delta <= 0 /\ req[p].row.amount + req[p].delta > 0
          /\ db[KeyOf(p)].present)
         => /\ db'[KeyOf(p)] = Row(req[p].row.amount + req[p].delta, req[p].row.buy_price)
            /\ resp'[p] = [Ok EXCEPT !.new_amount = req[p].row.amount + req[p].delta,
                                     !.buy_price = req[p].row.buy_price]]_vars

\* C5 witness: a reduce by 1 of a holding of 2 units at 3 has left 1 unit
\* at 3.
C5_Witness ==
    \E p \in Procs :
        /\ pc[p] = "done" /\ req[p].op = "update" /\ req[p].matched
        /\ req[p].delta = -1
        /\ req[p].row = Row(2, <<3, 1>>)
        /\ db[KeyOf(p)] = Row(1, <<3, 1>>)

\* C6: an Adjust that read the row (q1, p1) with q1 + delta <= 0 removes the
\* holding and reports new_amount 0 and buy_price p1; a removed holding stays
\* removed until an Open inserts it, and an Adjust that looks the key up
\* meanwhile is refused as not found.
C6_RemovalThenNotFound ==
    [][\A p \in Procs :
         /\ (/\ pc[p] = "upd_write" /\ Answers(p)
             /\ req[p].row.amount + req[p].delta <= 0)
            => /\ ~db'[KeyOf(p)].present
               /\ resp'[p] = [Ok EXCEPT !.new_amount = 0,
                                        !.buy_price = req[p].row.buy_price]
         /\ \A k \in Keys :
              (~db[k].present /\ db'[k].present /\ pc'[p] # pc[p])
              => pc[p] = "add_insert" /\ KeyOf(p) = k
         /\ (pc[p] = "upd_select" /\ pc'[p] # "upd_select" /\ ~db[KeyOf(p)].present)
            => IsNotFoundError(resp'[p])]_vars

\* C6 witness: one Adjust has taken a holding of 1 unit to 0 and removed it,
\* and a later Adjust on the key is refused as not found.
C6_Witness ==
    \E p, o \in Procs :
        /\ pc[p] = "done" /\ req[p].op = "update" /\ req[p].matched
        /\ req[p].row.amount = 1 /\ req[p].delta = -1
        /\ resp[p].status = 200 /\ resp[p].new_amount = 0
        /\ pc[o] = "done" /\ req[o].op = "update" /\ KeyOf(o) = KeyOf(p)
        /\ IsNotFoundError(resp[o])
        /\ ~db[KeyOf(p)].present

\* C7 as claimed: an Open for a (user, code) that has a holding is refused
\* as a duplicate and leaves the store unchanged.
C7_OpenOnExistingIsDuplicate ==
    [][\A p \in Procs :
         (/\ Answers(p) /\ req'[p].op = "add"
          /\ req'[p].user_id \in Users /\ req'[p].code \in Codes
          /\ db[<<req'[p].user_id, req'[p].code>>].present)
         => IsDuplicateError(resp'[p]) /\ db' = db]_vars

\* C7 as amended: an Open that passes the input checks and the fund
\* existence check, and whose lookup finds a holding for (user, code), is
\* refused as a duplicate; an Open refused for its inputs on such a key is a
\* validation error; both leave the store unchanged.
C7_CheckedOpenOnExistingIsDuplicate ==
    [][\A p \in Procs :
         /\ (pc[p] = "add_select" /\ pc'[p] # "add_select" /\ db[KeyOf(p)].present)
            => Answers(p) /\ IsDuplicateError(resp'[p]) /\ db' = db
         /\ (/\ pc[p] = "idle" /\ req'[p].op = "add" /\ Answers(p)
             /\ req'[p].user_id \in Users)
            => IsValidationError(resp'[p]) /\ db' = db]_vars

\* C7 witness: an Open with valid inputs is refused as a duplicate while the
\* holding of its key is stored.
C7_Witness ==
    \E p \in Procs :
        /\ pc[p] = "done" /\ req[p].op = "add" /\ req[p].realtime
        /\ IsDuplicateError(resp[p])
        /\ db[KeyOf(p)].present

\* C8: of two Opens of one (user, code) that both pass the lookup, the one
\* that inserts second is refused as a duplicate and changes nothing.
C8_RaceLoserIsDuplicate ==
    [][\A p \in Procs :
         (pc[p] = "add_insert" /\ Answers(p) /\ db[KeyOf(p)].present)
         => IsDuplicateError(resp'[p]) /\ db' = db]_vars

\* C9: an Open by a logged-in user is refused as a validation error, with the
\* store unchanged, whenever amount <= 0, buy_price <= 0 or the fund
\* existence check fails; an Open that succeeds has created the holding
\* (amount, buy_price) and changed no other.
C9_OpenValidation ==
    [][\A p \in Procs :
         (Answers(p) /\ req'[p].op = "add" /\ req'[p].user_id \in Users)
         => LET r == req'[p]
                k == <<r.user_id, r.code>>
            IN  IF r.amount <= 0 \/ r.buy_price <= 0 \/ ~r.realtime
                  THEN IsValidationError(resp'[p]) /\ db' = db
                  ELSE resp'[p].status = 200
                       => /\ ~db[k].present
                          /\ db' = [db EXCEPT ![k] = Row(r.amount, <<r.buy_price, 1>>)]]_vars

\* C9 witness: an Open with buy_price 0 and amount 2 is refused as a
\* validation error.
C9_Witness ==
    \E p \in Procs :
        /\ pc[p] = "done" /\ req[p].op = "add" /\ req[p].user_id \in Users
        /\ req[p].code \in Codes /\ req[p].numeric
        /\ req[p].buy_price = 0 /\ req[p].amount = 2
        /\ IsValidationError(resp[p])

\* C10: an Adjust whose lookup finds no holding for (user, code) is refused
\* as not found, and no step of an Adjust creates a holding or changes the
\* holding of another key.
C10_AdjustMissingIsNotFound ==
    [][\A p \in Procs :
         /\ (pc[p] = "upd_select" /\ pc'[p] # "upd_select" /\ ~db[KeyOf(p)].present)
            => Answers(p) /\ IsNotFoundError(resp'[p]) /\ db' = db
         /\ (req[p].op = "update" /\ pc'[p] # pc[p])
            => \A k \in Keys :
                 (k # KeyOf(p) \/ ~db[k].present) => db'[k] = db[k]]_vars

\* C10 witness: an Adjust on a key without a holding is refused as not found
\* while another user's holding is stored.
C10_Witness ==
    \E p \in Procs :
        /\ pc[p] = "done" /\ req[p].op = "update"
        /\ IsNotFoundError(resp[p])
        /\ ~db[KeyOf(p)].present
        /\ \E k \in Keys : k # KeyOf(p) /\ db[k].present
\* C11: Close is idempotent. Its DELETE leaves no holding for (user, code),
\* answers deleted whether or not there was one, and on a key without a
\* holding changes nothing: a second Close leaves the state of the first.
C11_CloseIdempotent ==
    [][\A p \in Procs :
         (pc[p] = "del_exec" /\ pc'[p] # "del_exec")
         => /\ Answers(p)
            /\ resp'[p] = Ok
            /\ ~db'[KeyOf(p)].present
            /\ ~db[KeyOf(p)].present => db' = db]_vars

\* C11 witness: two Closes of one key have both answered deleted; the first
\* found the holding, the second found none.
C11_Witness ==
    \E p, o \in Procs :
        /\ pc[p] = "done" /\ req[p].op = "delete" /\ req[p].matched
        /\ pc[o] = "done" /\ req[o].op = "delete" /\ ~req[o].matched
        /\ KeyOf(o) = KeyOf(p)
        /\ resp[p] = Ok /\ resp[o] = Ok
        /\ ~db[KeyOf(p)].present
\* ------------------------------------------------------------------- C12
\* The holdings the listing read are valid ones (q > 0, p > 0).
ReadValidRows(p) ==
    \A n \in 1..Len(req[p].rows) :
        req[p].rows[n].amount > 0 /\ FracPositive(req[p].rows[n].buy_price)

\* The listing answers with exactly the holdings of rows, in their order.
ListsExactly(r, rows) ==
    /\ r.status = 200
    /\ Len(r.funds) = Len(rows)
    /\ \A n \in 1..Len(rows) :
         /\ r.funds[n].code = rows[n].code
         /\ r.funds[n].amount = rows[n].amount
         /\ r.funds[n].buy_price = rows[n].buy_price

\* C12: the listing returns all Holdings of the user: when the listing of a
\* user whose stored holdings are valid answers with success, it answers with
\* exactly the holdings it read from the store, each with its quantity and
\* average cost (so one Holding (q, p) after a single successful Open).
C12_ListReturnsAllHoldings ==
    [][\A p \in Procs :
         (/\ pc[p] = "val_loop" /\ pc'[p] = "done"
          /\ ReadValidRows(p)
          /\ resp'[p].status = 200)
         => ListsExactly(resp'[p], req[p].rows)]_vars
\* ------------------------------------------------------------------- C13
\* market_value and cost_value of a listed holding, from the entry's fields.
MarketValue(f) == FracMul(f.current, FromNumber(f.amount))
CostValue(f) == FracMul(f.buy_price, FromNumber(f.amount))

RECURSIVE SumMarketValue(_)
SumMarketValue(funds) ==
    IF funds = <<>> THEN FromNumber(0)
    ELSE FracAdd(MarketValue(Head(funds)), SumMarketValue(Tail(funds)))

RECURSIVE SumCostValue(_)
SumCostValue(funds) ==
    IF funds = <<>> THEN FromNumber(0)
    ELSE FracAdd(CostValue(Head(funds)), SumCostValue(Tail(funds)))

\* C13: a valuation never aborts because of a quote failure: once it has read
\* the holdings it answers with success, and its total market value and total
\* profit are those of exactly the holdings it lists.
C13_ValuationNeverAborts ==
    [][\A p \in Procs :
         (pc[p] = "val_loop" /\ pc'[p] = "done")
         => /\ resp'[p].status = 200
            /\ resp'[p].total_asset = Round2(SumMarketValue(resp'[p].funds))
            /\ resp'[p].total_profit =
                   Round2(FracSub(SumMarketValue(resp'[p].funds),
                                  SumCostValue(resp'[p].funds)))]_vars
\* ------------------------------------------------------------------- C14
IsUnauthorized(r) == r = Error(401, "NotLoggedIn")

\* C14: an open, adjust, close or valuation request with no resolved identity
\* is answered at once with the authorization error, before any read or
\* write, and the store is unchanged; a request that goes on to read or
\* write acts for the identity of its session, never for a default user.
C14_NoIdentityRefused ==
    [][\A p \in Procs :
         /\ (pc[p] = "idle" /\ pc'[p] # "idle" /\ req'[p].session = NoUser)
            => /\ Answers(p)
               /\ IsUnauthorized(resp'[p])
               /\ db' = db
         /\ pc'[p] \notin {"idle", "done"}
            => /\ req'[p].session # NoUser
               /\ req'[p].user_id = req'[p].session]_vars

\* Each of the four operations has been refused for want of an identity while
\* a holding was in the store.
C14_Witness ==
    /\ \E k \in Keys : db[k].present
    /\ \E p, o \in Procs :
         /\ p # o
         /\ pc[p] = "done" /\ req[p].session = NoUser
         /\ req[p].op = "holdings" /\ IsUnauthorized(resp[p])
         /\ pc[o] = "done" /\ req[o].session = NoUser
         /\ req[o].op \in {"add", "update", "delete"} /\ IsUnauthorized(resp[o])
\* ------------------------------------------------------------------- C15
\* The (quantity, average_cost) pair of a row, or none.
Pair(row) == IF row.present THEN <<row.amount, row.buy_price>> ELSE <<>>

\* C15: the write of an Adjust takes the stored Holding from its pre-mutation
\* pair to the whole post-mutation pair (new quantity and new average cost
\* together, or the Holding removed) in one step, and the valuation's read
\* takes each pair as it stands in the store at one instant: it finds the
\* whole pre-mutation or the whole post-mutation pair, never a mix.
C15_ValuationSeesWholePair ==
    [][\A p \in Procs :
         /\ (pc[p] = "upd_write" /\ pc'[p] # "upd_write")
            => LET k == KeyOf(p)
                   new == NewRow(req[p].row, req[p].delta, req[p].add_price)
               IN  Pair(db'[k]) \in {Pair(db[k]), Pair(new)}
         /\ (pc[p] = "val_select" /\ pc'[p] # "val_select")
            => \A c \in Codes :
                 LET k == <<req[p].user_id, c>>
                     read == {<<row.amount, row.buy_price>> :
                                row \in {req'[p].rows[n] : n \in
                                         {m \in 1..Len(req'[p].rows) :
                                            req'[p].rows[m].code = c}}}
                 IN  read = IF db[k].present THEN {Pair(db[k])} ELSE {}]_vars

\* A valuation read a Holding while an Adjust of the same key was between its
\* read and its write; the Adjust has since written a new quantity and a new
\* average cost.
C15_Witness ==
    \E p, o \in Procs :
        /\ pc[p] = "val_loop" /\ Len(req[p].rows) = 1
        /\ pc[o] = "done" /\ req[o].op = "update" /\ req[o].matched
        /\ KeyOf(o) = <<req[p].user_id, req[p].rows[1].code>>
        /\ req[p].rows[1].amount = req[o].row.amount
        /\ req[p].rows[1].buy_price = req[o].row.buy_price
        /\ db[KeyOf(o)].present
        /\ db[KeyOf(o)].amount # req[p].rows[1].amount
        /\ db[KeyOf(o)].buy_price # req[p].rows[1].buy_price
\* ------------------------------------------------------------------- C16
\* today_pnl of a listed holding, unrounded: market_value * day_change_pct / 100.
TodayPnl(f) == FracDiv(FracMul(MarketValue(f), f.gszzl), FromNumber(100))

RECURSIVE SumTodayPnl(_)
SumTodayPnl(funds) ==
    IF funds = <<>> THEN FromNumber(0)
    ELSE FracAdd(TodayPnl(Head(funds)), SumTodayPnl(Tail(funds)))

\* C16: rounding happens at presentation only: the total_today_pnl a
\* valuation returns is the 2-decimal rounding of the sum of the unrounded
\* today_pnl of the holdings it lists.
C16_TodayTotalRoundedOnce ==
    [][\A p \in Procs :
         (pc[p] = "val_loop" /\ pc'[p] = "done" /\ resp'[p].status = 200)
         => resp'[p].today_profit = Round2(SumTodayPnl(resp'[p].funds))]_vars
\* ------------------------------------------------------------------- C17
\* The days of a period tag, an unrecognized tag counting as "1y".
PeriodDays(period) ==
    CASE period = "1m" -> 30
      [] period = "3m" -> 90
      [] period = "6m" -> 180
      [] OTHER -> 365

\* The entry's date is at or after today minus the period.
InPeriod(d, today, period) ==
    d.date * TicksPerDay >= today - PeriodDays(period) * TicksPerDay

\* C17: the history answer is exactly the entries of the fund's history dated
\* at or after now minus the period, in their original order; the period is
\* 30/90/180/365 days for 1m/3m/6m/1y and 365 for any other tag; an empty or
\* unavailable history gives an empty answer.
C17_HistoryFilter ==
    [][\A p \in Procs :
         (req'[p].op = "history" /\ Answers(p))
         => LET data == req'[p].data
                InP(d) == InPeriod(d, req'[p].today, req'[p].period)
            IN  /\ resp'[p].status = 200
                /\ resp'[p].series = SelectSeq(data, InP)
                /\ data = <<>> => resp'[p].series = <<>>]_vars

\* A "1m" request at midnight answered with part of the history in its
\* order: the entry dated exactly 30 days back and a later one kept, an
\* older one between them dropped.
C17_Witness ==
    /\ pc[1] = "done" /\ req[1].op = "history"
    /\ req[1].period = "1m" /\ req[1].today = 800
    /\ Len(req[1].data) = 3 /\ Len(resp[1].series) = 2
    /\ req[1].data[1].date = 370 /\ req[1].data[2].date = 310
    /\ req[1].data[3].date = 371
    /\ resp[1].series = <<req[1].data[1], req[1].data[3]>>
\* ------------------------------------------------------------------- C18
\* C18: a step of an Open, Adjust or Close of user u on code c, whatever its
\* outcome, leaves the Holding of every other (user, code) key as it was; a
\* valuation writes nothing and reads exactly the Holdings of its own user.
C18_OwnKeyOnly ==
    [][\A p \in Procs :
         /\ (pc'[p] # pc[p] /\ req'[p].op \in {"add", "update", "delete"})
            => \A k \in Keys \ {<<req'[p].user_id, req'[p].code>>} : db'[k] = db[k]
         /\ (pc'[p] # pc[p] /\ req'[p].op = "holdings") => db' = db
         /\ (pc[p] = "val_select" /\ pc'[p] # "val_select")
            => LET rows == req'[p].rows
                   owned == {c \in Codes : db[<<req[p].user_id, c>>].present}
               IN  /\ Len(rows) = Cardinality(owned)
                   /\ {rows[n].code : n \in 1..Len(rows)} = owned
                   /\ \A n \in 1..Len(rows) :
                        LET own == db[<<req[p].user_id, rows[n].code>>]
                        IN  rows[n].amount = own.amount
                            /\ rows[n].buy_price = own.buy_price]_vars

\* User 1 has opened a Holding of a code of which user 2 holds another
\* quantity at another price, and user 2's valuation has read user 2's own.
C18_Witness ==
    \E p, o \in Procs :
        /\ pc[p] = "done" /\ req[p].op = "add" /\ resp[p] = Ok
        /\ req[p].user_id = 1
        /\ db[<<1, req[p].code>>].present /\ db[<<2, req[p].code>>].present
        /\ db[<<1, req[p].code>>].amount # db[<<2, req[p].code>>].amount
        /\ db[<<1, req[p].code>>].buy_price # db[<<2, req[p].code>>].buy_price
        /\ pc[o] = "val_loop" /\ req[o].user_id = 2
        /\ Len(req[o].rows) = 1 /\ req[o].rows[1].code = req[p].code
        /\ req[o].rows[1].amount = db[<<2, req[p].code>>].amount
\* ------------------------------------------------------------------- C19
\* C19: an Adjust that answers success with new_amount = n > 0 leaves, at its
\* commit, a Holding of its key with quantity n in the store.
C19_ReportedQuantityIsStored ==
    [][\A p \in Procs :
         (/\ pc[p] = "upd_write" /\ Answers(p)
          /\ resp'[p].status = 200 /\ resp'[p].new_amount > 0)
         => /\ db'[KeyOf(p)].present
            /\ db'[KeyOf(p)].amount = resp'[p].new_amount]_vars
\* ------------------------------------------------------------------- C20
\* C20: when every price supplied to a Holding since it was last opened is
\* positive, its stored average cost lies between the least and the greatest
\* of the prices of its buys (the Open and the adds) since then.
C20_AverageWithinBuyPrices ==
    \A k \in Keys :
        (db[k].present /\ hist[k].minp > 0)
        => /\ hist[k].minp * db[k].buy_price[2] <= db[k].buy_price[1]
           /\ db[k].buy_price[1] <= hist[k].maxp * db[k].buy_price[2]

\* A Holding bought at two prices whose average cost lies strictly between
\* them.
C20_Witness ==
    \E k \in Keys :
        /\ db[k].present /\ hist[k].minp > 0 /\ hist[k].minp < hist[k].maxp
        /\ hist[k].minp * db[k].buy_price[2] < db[k].buy_price[1]
        /\ db[k].buy_price[1] < hist[k].maxp * db[k].buy_price[2]
====
